---- MODULE Spec2Model ----
(***************************************************************************)
(* survive.py: a top-down survival arena.  The module models the entity    *)
(* classes (Character, Player, Bullet, Enemy), the camera-synced render    *)
(* group and the main loop of survive.py, one pass of the loop being       *)
(* split at the places where the source moves from one phase to the next.  *)
(*                                                                         *)
(* Numbers.  pygame's Rect holds integers; a float handed to move_ip or    *)
(* to the center setter is converted by truncation toward zero.  Every     *)
(* float of the source is either integer valued (WIDTH / 2, the pointer    *)
(* offset) or the product speed * (diff / norm), whose truncation StepComp *)
(* computes in integers.                                                   *)
(***************************************************************************)
EXTENDS Integers, Sequences, FiniteSets, TLC

WIDTH == 1600
HEIGHT == 900

\* ------------------------------------------------------------------ bounds
\* sizes of the loaded images (ex04/fig/3.png scaled by 1.2, alien1.png);
\* the image files are not part of the source
PlayerW == 58
PlayerH == 58
\* the enemy is wider than the 50 px that lie between two bullets of a Player
\* who walks the way the bullets fly, so that one enemy can touch two bullets
EnemyW == 80
EnemyH == 70
\* the main loop is followed for this many ticks
MaxTick == 304

\* ----------------------------------------------------------- small helpers
Max2(a, b) == IF a >= b THEN a ELSE b
Abs(a) == IF a >= 0 THEN a ELSE 0 - a
Sgn(a) == IF a > 0 THEN 1 ELSE IF a < 0 THEN 0 - 1 ELSE 0
SetMax(S) == CHOOSE m \in S : \A o \in S : o <= m

\* a pygame Rect: integer top-left corner and size
MkRect(cx, cy, w, h) == [x |-> cx - (w \div 2), y |-> cy - (h \div 2), w |-> w, h |-> h]
CenterX(r) == r.x + (r.w \div 2)
CenterY(r) == r.y + (r.h \div 2)
MoveIp(r, dx, dy) == [r EXCEPT !.x = @ + dx, !.y = @ + dy]
CollideRect(a, b) ==
    /\ a.x < b.x + b.w
    /\ a.y < b.y + b.h
    /\ a.x + a.w > b.x
    /\ a.y + a.h > b.y

\* ---------------------------------------------------------------- Character
\* "no validity limit" of an image entry; a limit n is <<n>>
None == << >>

SetImage(c, image, priority, valid_time) ==
    [c EXCEPT !.imgs = [k \in (DOMAIN c.imgs) \cup {priority} |->
                          IF k = priority THEN [image |-> image, valid_time |-> valid_time]
                          ELSE c.imgs[k]]]

Character(kind, image, cx, cy, w, h, hp, max_invincible_tick) ==
    [kind |-> kind,
     hp |-> hp,
     max_invincible_tick |-> max_invincible_tick,
     invincible_tmr |-> 0 - 1,
     imgs |-> (0 :> [image |-> image, valid_time |-> None]),
     image |-> "unset",
     rect |-> MkRect(cx, cy, w, h)]

HurtPriority == 5
HurtTicks == 20
PlayerDamaged(c) == SetImage(c, "fig8", HurtPriority, <<HurtTicks>>)

Damaged(c) == IF c.kind = "player" THEN PlayerDamaged(c) ELSE c

\* mutant of GiveDamage: the invincibility test is missing
GiveDamageNoWindow(c, damage) ==
    Damaged([c EXCEPT !.hp = @ - damage,
                      !.invincible_tmr = c.max_invincible_tick])

\* give_damage without the kill() call, which the caller applies
GiveDamage(c, damage) ==
    IF c.invincible_tmr <= 0
    THEN Damaged([c EXCEPT !.hp = @ - damage,
                           !.invincible_tmr = c.max_invincible_tick])
    ELSE c

\* mutant of CharacterUpdate: the timer is not clamped at -1
CharacterUpdateNoFloor(c) ==
    LET c1 == [c EXCEPT !.invincible_tmr = @ - 1]
    IN  IF DOMAIN c.imgs = {} THEN c1
        ELSE LET idx == SetMax(DOMAIN c.imgs)
                 c2 == [c1 EXCEPT !.image = c.imgs[idx].image]
             IN  IF c.imgs[idx].valid_time # None
                 THEN IF c.imgs[idx].valid_time[1] < 0
                      THEN [c2 EXCEPT !.imgs = [k \in (DOMAIN c.imgs) \ {idx} |-> c.imgs[k]]]
                      ELSE [c2 EXCEPT !.imgs[idx].valid_time = <<@[1] - 1>>]
                 ELSE c2

\* mutant of CharacterUpdate: an entry is evicted as soon as its counter is used up
CharacterUpdateEarly(c) ==
    LET c1 == [c EXCEPT !.invincible_tmr = Max2(@ - 1, 0 - 1)]
    IN  IF DOMAIN c.imgs = {} THEN c1
        ELSE LET idx == SetMax(DOMAIN c.imgs)
                 c2 == [c1 EXCEPT !.image = c.imgs[idx].image]
             IN  IF c.imgs[idx].valid_time # None
                 THEN IF c.imgs[idx].valid_time[1] <= 0
                      THEN [c2 EXCEPT !.imgs = [k \in (DOMAIN c.imgs) \ {idx} |-> c.imgs[k]]]
                      ELSE [c2 EXCEPT !.imgs[idx].valid_time = <<@[1] - 1>>]
                 ELSE c2

\* mutant of CharacterUpdate: the counters of all timed entries run down
CharacterUpdateAll(c) ==
    LET c1 == [c EXCEPT !.invincible_tmr = Max2(@ - 1, 0 - 1)]
    IN  IF DOMAIN c.imgs = {} THEN c1
        ELSE LET idx == SetMax(DOMAIN c.imgs)
                 c2 == [c1 EXCEPT !.image = c.imgs[idx].image]
                 live == {k \in DOMAIN c.imgs :
                             c.imgs[k].valid_time # None => c.imgs[k].valid_time[1] >= 0}
             IN  [c2 EXCEPT !.imgs =
                     [k \in live |->
                         IF c.imgs[k].valid_time # None
                         THEN [c.imgs[k] EXCEPT !.valid_time = <<@[1] - 1>>]
                         ELSE c.imgs[k]]]

\* lines 108-122
CharacterUpdate(c) ==
    LET c1 == [c EXCEPT !.invincible_tmr = Max2(@ - 1, 0 - 1)]
    IN  IF DOMAIN c.imgs = {} THEN c1
        ELSE LET idx == SetMax(DOMAIN c.imgs)
                 c2 == [c1 EXCEPT !.image = c.imgs[idx].image]
             IN  IF c.imgs[idx].valid_time # None
                 THEN IF c.imgs[idx].valid_time[1] < 0
                      THEN [c2 EXCEPT !.imgs = [k \in (DOMAIN c.imgs) \ {idx} |-> c.imgs[k]]]
                      ELSE [c2 EXCEPT !.imgs[idx].valid_time = <<@[1] - 1>>]
                 ELSE c2

\* -------------------------------------------------------------- vector math
Norm2(org, dst) ==
    (CenterX(dst) - CenterX(org)) * (CenterX(dst) - CenterX(org))
    + (CenterY(dst) - CenterY(org)) * (CenterY(dst) - CenterY(org))

\* int(speed * (d / sqrt(n2))) for an integer d with d*d <= n2, n2 > 0
StepComp(speed, d, n2) ==
    Sgn(d) * (CHOOSE k \in 0..speed :
                 /\ k * k * n2 <= speed * speed * d * d
                 /\ (k + 1) * (k + 1) * n2 > speed * speed * d * d)

\* calc_norm(org, dst) < r, both sides squared
CalcNormBelow(org, dst, r) == Norm2(org, dst) < r * r

\* calc_orientation: the direction is kept as the integer difference vector;
\* its components divided by sqrt(Norm2) are the floats of the source
CalcOrientation(org, dst) == <<CenterX(dst) - CenterX(org), CenterY(dst) - CenterY(org)>>

\* ------------------------------------------------------------------- Player
Keys == {"w", "s", "a", "d"}
delta == [k \in Keys |->
            CASE k = "w" -> <<0, 0 - 1>>
              [] k = "s" -> <<0, 1>>
              [] k = "a" -> <<0 - 1, 0>>
              [] k = "d" -> <<1, 0>>]

move_imgs ==
    (<<1, 0>> :> "right") @@ (<<1, 0 - 1>> :> "right_up") @@ (<<0, 0 - 1>> :> "up")
    @@ (<<0 - 1, 0 - 1>> :> "left_up") @@ (<<0 - 1, 0>> :> "left")
    @@ (<<0 - 1, 1>> :> "left_down") @@ (<<0, 1>> :> "down") @@ (<<1, 1>> :> "right_down")

PlayerHp == 50
PlayerInvincibleTick == 50
PlayerSpeed == 10

\* mutant of Player: the hp is not a multiple of the contact damage
PlayerOddHp(cx, cy) ==
    Character("player", move_imgs[<<1, 0>>], cx, cy, PlayerW, PlayerH,
              PlayerHp - 5, PlayerInvincibleTick) @@ [dire |-> <<1, 0>>, speed |-> PlayerSpeed]

\* lines 163-186
Player(cx, cy) ==
    Character("player", move_imgs[<<1, 0>>], cx, cy, PlayerW, PlayerH,
              PlayerHp, PlayerInvincibleTick) @@ [dire |-> <<1, 0>>, speed |-> PlayerSpeed]

\* the vector sum of the pressed keys' deltas
SumMv(keys) ==
    <<(IF "d" \in keys THEN 1 ELSE 0) - (IF "a" \in keys THEN 1 ELSE 0),
      (IF "s" \in keys THEN 1 ELSE 0) - (IF "w" \in keys THEN 1 ELSE 0)>>

\* mutant of PlayerUpdate: the facing follows the sum even when it is zero
PlayerUpdateAlwaysFace(p, keys) ==
    LET c == CharacterUpdate(p)
        sum_mv == SumMv(keys)
    IN  [c EXCEPT !.rect = MoveIp(@, p.speed * sum_mv[1], p.speed * sum_mv[2]),
                  !.dire = sum_mv]

\* lines 206-220
PlayerUpdate(p, keys) ==
    LET c == CharacterUpdate(p)
        sum_mv == SumMv(keys)
        moved == [c EXCEPT !.rect = MoveIp(@, p.speed * sum_mv[1], p.speed * sum_mv[2])]
    IN  IF ~(sum_mv[1] = 0 /\ sum_mv[2] = 0)
        THEN SetImage([moved EXCEPT !.dire = sum_mv], move_imgs[sum_mv], 0, None)
        ELSE moved

\* ------------------------------------------------------------------- Bullet
MAX_LIFE_TICK == 250
BulletW == 20
BulletH == 10
BulletSpeed == 20

Bullet(cx, cy, direction) ==
    [v |-> direction,
     rect |-> MkRect(cx, cy, BulletW, BulletH),
     speed |-> BulletSpeed,
     life_tmr |-> 0]

BulletNorm2(b) == b.v[1] * b.v[1] + b.v[2] * b.v[2]

\* Bullet.update without the kill() call: move, then count the tick
BulletUpdate(b) ==
    [b EXCEPT !.rect = MoveIp(@, StepComp(b.speed, b.v[1], BulletNorm2(b)),
                                 StepComp(b.speed, b.v[2], BulletNorm2(b))),
              !.life_tmr = @ + 1]

\* mutant of BulletKilled: the bullet lives five updates longer
BulletKilledLate(b) == b.life_tmr > MAX_LIFE_TICK + 5

\* the test of Bullet.update that calls kill(), on the bullet before the update
BulletKilled(b) == b.life_tmr > MAX_LIFE_TICK

\* -------------------------------------------------------------------- Enemy
EnemyHp == 20
EnemySpeed == 5
MinRange == 50

Enemy(hp, cx, cy) ==
    Character("enemy", "alien1", cx, cy, EnemyW, EnemyH, hp, 0) @@ [speed |-> EnemySpeed]

\* mutant of EnemyUpdate: the guard also stops an enemy at exactly the minimum range
EnemyUpdateInclusive(e, target) ==
    LET c == CharacterUpdate(e)
        dir == CalcOrientation(c.rect, target.rect)
        n2 == Norm2(c.rect, target.rect)
    IN  IF n2 <= MinRange * MinRange THEN c
        ELSE [c EXCEPT !.rect = MoveIp(@, StepComp(c.speed, dir[1], n2),
                                          StepComp(c.speed, dir[2], n2))]

EnemyUpdate(e, target) ==
    LET c == CharacterUpdate(e)
        dir == CalcOrientation(c.rect, target.rect)
        n2 == Norm2(c.rect, target.rect)
    IN  IF CalcNormBelow(c.rect, target.rect, MinRange) THEN c
        ELSE [c EXCEPT !.rect = MoveIp(@, StepComp(c.speed, dir[1], n2),
                                          StepComp(c.speed, dir[2], n2))]

\* ------------------------------------------------------ Group_support_camera
\* the offset draw applies to every member before the blit
DrawOffset(cam) == <<(0 - cam[1]) + (WIDTH \div 2), (0 - cam[2]) + (HEIGHT \div 2)>>
\* mutant of RestoreOffset: the vertical offset is applied a second time
RestoreOffsetSameSign(cam) == <<cam[1] - (WIDTH \div 2), (0 - cam[2]) + (HEIGHT \div 2)>>

\* the offset draw applies after the blit
RestoreOffset(cam) == <<cam[1] - (WIDTH \div 2), cam[2] - (HEIGHT \div 2)>>

\* the members' rects while super().draw blits them
ToScreen(r, cam) == MoveIp(r, DrawOffset(cam)[1], DrawOffset(cam)[2])
\* a member's rect after the whole draw call
AfterDraw(r, cam) == MoveIp(ToScreen(r, cam), RestoreOffset(cam)[1], RestoreOffset(cam)[2])

\* ===================================================================== main
VARIABLES
    tmr,        \* main: tmr
    pc,         \* the place in main's loop body that runs next
    camera,     \* camera.center_pos
    player,     \* the Player
    enemies,    \* the sprites of the group enemies, in insertion order
    bullets,    \* the sprites of the group bullets, in insertion order
    key_lst,    \* the pressed movement keys, as sampled by pg.key.get_pressed()
    mouse_pos,  \* the pointer, as pg.mouse.get_pos() returns it
    changes,    \* how often the sampled inputs have changed so far
    frame,      \* what the last player_group.draw blitted for the player
    hits,       \* history: the give_damage calls that lowered the Player's hp
    since_hit,  \* history: the Player.update calls since the last of them
    taken,      \* history: the most bullets one enemy took in the last pass A
    first_hit   \* history: the tick that first lowered the Player's hp, or -1

vars == <<tmr, pc, camera, player, enemies, bullets, key_lst, mouse_pos, changes, frame, hits, since_hit, taken, first_hit>>

\* ------------------------------------------------------------------ inputs
\* The keyboard and the pointer keep their state from one tick to the next.
\* A run starts with any of the key sets and pointer positions below and
\* changes them at most MaxInputChanges times, at a tick that is a multiple of
\* InputPeriod.  The pointer is right of, left of, or exactly on the centre
\* of the window.  The world stays on the x axis: the enemies come from the
\* left (angle 180), the Player stands or walks towards them.
KeyInputs == {{}, {"a"}}
MouseInputs == {<<1600, 450>>, <<0, 450>>, <<800, 450>>}
Angles == {180}
\* the inputs change at most this often, and only every InputPeriod ticks
MaxInputChanges == 1
InputPeriod == 120

\* 1000 * (cos, -sin) of the angle, as an integer part and the sign of the
\* float's remaining fraction (cos(radians(90)) is 6.1e-17, not 0)
SpawnDir(a) ==
    CASE a = 0   -> [int |-> <<1000, 0>>, eps |-> <<0, 0>>]
      [] a = 90  -> [int |-> <<0, 0 - 1000>>, eps |-> <<1, 0>>]
      [] a = 180 -> [int |-> <<0 - 1000, 0>>, eps |-> <<0, 0 - 1>>]
      [] a = 270 -> [int |-> <<0, 1000>>, eps |-> <<0 - 1, 0>>]
      [] a = 360 -> [int |-> <<1000, 0>>, eps |-> <<0, 1>>]

\* int(c + f) for an integer c and a float f = i + (a fraction of sign e, |fraction| < 1e-12)
TruncAdd(c, i, e) ==
    IF e > 0 /\ c + i < 0 THEN c + i + 1
    ELSE IF e < 0 /\ c + i > 0 THEN c + i - 1
    ELSE c + i

SpawnPoint(cam, a) ==
    <<TruncAdd(cam[1], SpawnDir(a).int[1], SpawnDir(a).eps[1]),
      TruncAdd(cam[2], SpawnDir(a).int[2], SpawnDir(a).eps[2])>>

Init ==
    /\ tmr = 0
    /\ pc = "sample"
    /\ camera = <<0, 0>>
    /\ player = Player(0, 0)
    /\ enemies = << >>
    /\ bullets = << >>
    /\ key_lst \in KeyInputs
    /\ mouse_pos \in MouseInputs
    /\ changes = 0
    /\ frame = [image |-> "unset", rect |-> MkRect(0, 0, PlayerW, PlayerH)]
    /\ hits = 0
    /\ since_hit = 0
    /\ taken = 0
    /\ first_hit = 0 - 1

\* lines 344-347: the inputs of the tick are sampled, no QUIT event
Sample ==
    /\ pc = "sample"
    /\ tmr < MaxTick
    /\ \/ UNCHANGED <<key_lst, mouse_pos, changes>>
       \/ /\ changes < MaxInputChanges
          /\ tmr % InputPeriod = 0
          /\ key_lst' \in KeyInputs
          /\ mouse_pos' \in MouseInputs
          /\ <<key_lst', mouse_pos'>> # <<key_lst, mouse_pos>>
          /\ changes' = changes + 1
    /\ pc' = "spawn_enemy"
    /\ UNCHANGED <<tmr, camera, player, enemies, bullets, frame, hits, since_hit, taken, first_hit>>

\* lines 345-347: a QUIT event ends main
Quit ==
    /\ pc = "sample"
    /\ pc' = "quit"
    /\ UNCHANGED <<tmr, camera, player, enemies, bullets, key_lst, mouse_pos, changes, frame, hits, since_hit, taken, first_hit>>

EnemyPeriod == 30

\* lines 349-362
SpawnEnemy ==
    /\ pc = "spawn_enemy"
    /\ \E angle \in Angles :
          enemies' = IF tmr % EnemyPeriod = 0
                     THEN Append(enemies, Enemy(EnemyHp, SpawnPoint(camera, angle)[1],
                                                         SpawnPoint(camera, angle)[2]))
                     ELSE enemies
    /\ pc' = "pass_a"
    /\ UNCHANGED <<tmr, camera, player, bullets, key_lst, mouse_pos, changes, frame, hits, since_hit, taken, first_hit>>

\* pg.sprite.groupcollide(enemies, bullets, False, True): the enemies are taken
\* in group order, and each one kills the bullets it touches before the next
\* enemy is looked at.  crashed: the indices of the enemies that got a bullet;
\* most: the length of the longest bullet list of the returned dict.
\* mutant of GroupCollide: the touched bullets are not killed (dokill2 False)
GroupCollideKeep(es, bs, i, crashed) ==
    [crashed |-> {k \in 1..Len(es) : \E j \in 1..Len(bs) : CollideRect(es[k].rect, bs[j].rect)},
     bullets |-> bs,
     most |-> SetMax({0} \cup {Cardinality({j \in 1..Len(bs) : CollideRect(es[k].rect, bs[j].rect)}) :
                                 k \in 1..Len(es)})]

RECURSIVE GroupCollide(_, _, _, _)
GroupCollide(es, bs, i, crashed) ==
    IF i > Len(es) THEN [crashed |-> crashed, bullets |-> bs, most |-> 0]
    ELSE LET Hit(b) == CollideRect(es[i].rect, b.rect)
             Miss(b) == ~Hit(b)
             rest == SelectSeq(bs, Miss)
             later == GroupCollide(es, rest, i + 1,
                                   IF Len(rest) < Len(bs) THEN crashed \cup {i} ELSE crashed)
         IN  [later EXCEPT !.most = Max2(@, Len(bs) - Len(rest))]

BulletDamage == 10
ContactDamage == 10

\* mutant of Without: kill() leaves the sprite in its groups
WithoutNothing(s, drop, i) == s

\* the sequence s without the positions in drop
RECURSIVE Without(_, _, _)
Without(s, drop, i) ==
    IF i > Len(s) THEN << >>
    ELSE (IF i \in drop THEN << >> ELSE <<s[i]>>) \o Without(s, drop, i + 1)

\* give_damage called n times in a row (Player.kill does nothing)
RECURSIVE GiveDamageTimes(_, _, _)
GiveDamageTimes(c, damage, n) ==
    IF n = 0 THEN c ELSE GiveDamageTimes(GiveDamage(c, damage), damage, n - 1)

\* mutant of HitEnemies: give_damage once for every bullet of the longest list
HitEnemiesPerBullet(es, gc) ==
    [i \in 1..Len(es) |->
        IF i \in gc.crashed THEN GiveDamageTimes(es[i], BulletDamage, gc.most) ELSE es[i]]

\* lines 365-366: give_damage(10) once for every enemy that is a key of the dict
HitEnemies(es, gc) ==
    [i \in 1..Len(es) |->
        IF i \in gc.crashed THEN GiveDamage(es[i], BulletDamage) ELSE es[i]]

\* mutant of PassA: an enemy whose hp is <= 0 stays in enemies
PassAKeepDead ==
    /\ pc = "pass_a"
    /\ LET gc == GroupCollide(enemies, bullets, 1, {})
       IN  /\ enemies' = HitEnemies(enemies, gc)
           /\ bullets' = gc.bullets
           /\ taken' = gc.most
    /\ pc' = "pass_b"
    /\ UNCHANGED <<tmr, camera, player, key_lst, mouse_pos, changes, frame, hits, since_hit, first_hit>>

\* lines 364-366: every enemy of the dict gets give_damage(10); kill() takes
\* an enemy whose hp is <= 0 out of enemies at once
PassA ==
    /\ pc = "pass_a"
    /\ LET gc == GroupCollide(enemies, bullets, 1, {})
           hit == HitEnemies(enemies, gc)
           killed == {i \in gc.crashed : hit[i].hp <= 0}
       IN  /\ enemies' = Without(hit, killed, 1)
           /\ bullets' = gc.bullets
           /\ taken' = gc.most
    /\ pc' = "pass_b"
    /\ UNCHANGED <<tmr, camera, player, key_lst, mouse_pos, changes, frame, hits, since_hit, first_hit>>

Touching(p, es) == {i \in 1..Len(es) : CollideRect(p.rect, es[i].rect)}

\* mutant of PassB: an enemy that touches the Player is killed by the contact
\* (dokill True)
PassBKill ==
    /\ pc = "pass_b"
    /\ player' = GiveDamageTimes(player, ContactDamage, Cardinality(Touching(player, enemies)))
    /\ enemies' = Without(enemies, Touching(player, enemies), 1)
    /\ hits' = hits + ((player.hp - player'.hp) \div ContactDamage)
    /\ since_hit' = IF player'.hp < player.hp THEN 0 ELSE since_hit
    /\ first_hit' = IF player'.hp < player.hp /\ first_hit < 0 THEN tmr ELSE first_hit
    /\ pc' = "game_over_check"
    /\ UNCHANGED <<tmr, camera, bullets, key_lst, mouse_pos, changes, frame, taken>>

\* lines 368-374 (the background tiles are not modelled)
PassB ==
    /\ pc = "pass_b"
    /\ player' = GiveDamageTimes(player, ContactDamage, Cardinality(Touching(player, enemies)))
    /\ hits' = hits + ((player.hp - player'.hp) \div ContactDamage)
    /\ since_hit' = IF player'.hp < player.hp THEN 0 ELSE since_hit
    /\ first_hit' = IF player'.hp < player.hp /\ first_hit < 0 THEN tmr ELSE first_hit
    /\ pc' = "game_over_check"
    /\ UNCHANGED <<tmr, camera, enemies, bullets, key_lst, mouse_pos, changes, frame, taken>>

Blit(p, cam) == [image |-> p.image, rect |-> ToScreen(p.rect, cam)]

DefeatPriority == 10
DefeatTicks == 250

\* mutant of GameOver: the defeat branch renders without the last player.update
GameOverNoUpdate ==
    /\ pc = "game_over_check"
    /\ player.hp <= 0
    /\ LET p == SetImage(player, "fig8", DefeatPriority, <<DefeatTicks>>)
       IN  /\ frame' = Blit(p, camera)
           /\ player' = [p EXCEPT !.rect = AfterDraw(@, camera)]
    /\ since_hit' = since_hit
    /\ pc' = "game_over"
    /\ UNCHANGED <<tmr, camera, enemies, bullets, key_lst, mouse_pos, changes, hits, taken, first_hit>>

\* lines 376-384: the defeat branch, which ends main
GameOver ==
    /\ pc = "game_over_check"
    /\ player.hp <= 0
    /\ LET p == PlayerUpdate(SetImage(player, "fig8", DefeatPriority, <<DefeatTicks>>), key_lst)
       IN  /\ frame' = Blit(p, camera)
           /\ player' = [p EXCEPT !.rect = AfterDraw(@, camera)]
    /\ since_hit' = since_hit + 1
    /\ pc' = "game_over"
    /\ UNCHANGED <<tmr, camera, enemies, bullets, key_lst, mouse_pos, changes, hits, taken, first_hit>>

\* mutant of UpdatePlayer: the camera takes the centre the Player had before
\* it moved
UpdatePlayerCameraFirst ==
    /\ pc = "game_over_check"
    /\ player.hp > 0
    /\ player' = PlayerUpdate(player, key_lst)
    /\ camera' = <<CenterX(player.rect), CenterY(player.rect)>>
    /\ since_hit' = since_hit + 1
    /\ pc' = "spawn_bullet"
    /\ UNCHANGED <<tmr, enemies, bullets, key_lst, mouse_pos, changes, frame, hits, taken, first_hit>>

\* lines 386-390
UpdatePlayer ==
    /\ pc = "game_over_check"
    /\ player.hp > 0
    /\ player' = PlayerUpdate(player, key_lst)
    /\ camera' = <<CenterX(player'.rect), CenterY(player'.rect)>>
    /\ since_hit' = since_hit + 1
    /\ pc' = "spawn_bullet"
    /\ UNCHANGED <<tmr, enemies, bullets, key_lst, mouse_pos, changes, frame, hits, taken, first_hit>>

BulletPeriod == 5

\* mutant of PointerWorld: the camera is subtracted instead of added
PointerWorldMinus(m, cam) == <<(m[1] - (WIDTH \div 2)) - cam[1], (m[2] - (HEIGHT \div 2)) - cam[2]>>

\* the centre of the 200 x 200 rect that main puts under the pointer
PointerWorld(m, cam) == <<(m[1] - (WIDTH \div 2)) + cam[1], (m[2] - (HEIGHT \div 2)) + cam[2]>>
PointerRect(m, cam) == MkRect(PointerWorld(m, cam)[1], PointerWorld(m, cam)[2], 200, 200)

\* lines 392-401, when calc_orientation divides by a norm that is not 0
SpawnBullet ==
    /\ pc = "spawn_bullet"
    /\ IF tmr % BulletPeriod = 0
       THEN /\ Norm2(player.rect, PointerRect(mouse_pos, camera)) # 0
            /\ bullets' = Append(bullets,
                   Bullet(CenterX(player.rect), CenterY(player.rect),
                          CalcOrientation(player.rect, PointerRect(mouse_pos, camera))))
       ELSE bullets' = bullets
    /\ pc' = "bullets_update"
    /\ UNCHANGED <<tmr, camera, player, enemies, key_lst, mouse_pos, changes, frame, hits, since_hit, taken, first_hit>>

\* line 401, when the pointer is on the player's centre: ZeroDivisionError
AimCrash ==
    /\ pc = "spawn_bullet"
    /\ tmr % BulletPeriod = 0
    /\ Norm2(player.rect, PointerRect(mouse_pos, camera)) = 0
    /\ pc' = "crashed"
    /\ UNCHANGED <<tmr, camera, player, enemies, bullets, key_lst, mouse_pos, changes, frame, hits, since_hit, taken, first_hit>>

RECURSIVE BulletsUpdate(_, _)
BulletsUpdate(bs, i) ==
    IF i > Len(bs) THEN << >>
    ELSE (IF BulletKilled(bs[i]) THEN << >> ELSE <<BulletUpdate(bs[i])>>)
         \o BulletsUpdate(bs, i + 1)

\* line 404
UpdateBullets ==
    /\ pc = "bullets_update"
    /\ bullets' = BulletsUpdate(bullets, 1)
    /\ pc' = "enemies_update"
    /\ UNCHANGED <<tmr, camera, player, enemies, key_lst, mouse_pos, changes, frame, hits, since_hit, taken, first_hit>>

\* line 406
UpdateEnemies ==
    /\ pc = "enemies_update"
    /\ enemies' = [i \in 1..Len(enemies) |-> EnemyUpdate(enemies[i], player)]
    /\ pc' = "draw"
    /\ UNCHANGED <<tmr, camera, player, bullets, key_lst, mouse_pos, changes, frame, hits, since_hit, taken, first_hit>>

\* lines 408-412: the three groups are drawn, each member moved and moved back
Draw ==
    /\ pc = "draw"
    /\ frame' = Blit(player, camera)
    /\ player' = [player EXCEPT !.rect = AfterDraw(@, camera)]
    /\ bullets' = [i \in 1..Len(bullets) |-> [bullets[i] EXCEPT !.rect = AfterDraw(@, camera)]]
    /\ enemies' = [i \in 1..Len(enemies) |-> [enemies[i] EXCEPT !.rect = AfterDraw(@, camera)]]
    /\ pc' = "tick"
    /\ UNCHANGED <<tmr, camera, key_lst, mouse_pos, changes, hits, since_hit, taken, first_hit>>

\* lines 414-416
Tick ==
    /\ pc = "tick"
    /\ tmr' = tmr + 1
    /\ pc' = "sample"
    /\ UNCHANGED <<camera, player, enemies, bullets, key_lst, mouse_pos, changes, frame, hits, since_hit, taken, first_hit>>

Next ==
    \/ Sample
    \/ Quit
    \/ SpawnEnemy
    \/ PassA
    \/ PassB
    \/ GameOver
    \/ UpdatePlayer
    \/ SpawnBullet
    \/ AimCrash
    \/ UpdateBullets
    \/ UpdateEnemies
    \/ Draw
    \/ Tick

Spec == Init /\ [][Next]_vars

\* ============================================================ Enemy.update
\* An Enemy is spawned as main spawns it, on an axis at distance 1000 from a
\* Player that stays at the origin, and is updated again and again; tmr
\* counts the updates.
ChaseAngles == {0, 90, 180, 270, 360}
MaxChase == 200

ChaseInit ==
    /\ tmr = 0
    /\ pc = "chase"
    /\ camera = <<0, 0>>
    /\ player = Player(0, 0)
    /\ \E a \in ChaseAngles :
          enemies = <<Enemy(EnemyHp, SpawnPoint(camera, a)[1], SpawnPoint(camera, a)[2])>>
    /\ bullets = << >>
    /\ key_lst = {}
    /\ mouse_pos = <<1600, 450>>
    /\ changes = 0
    /\ frame = [image |-> "unset", rect |-> MkRect(0, 0, PlayerW, PlayerH)]
    /\ hits = 0
    /\ since_hit = 0
    /\ taken = 0
    /\ first_hit = 0 - 1

\* line 406, alone
ChaseUpdate ==
    /\ pc = "chase"
    /\ tmr < MaxChase
    /\ enemies' = [i \in 1..Len(enemies) |-> EnemyUpdate(enemies[i], player)]
    /\ tmr' = tmr + 1
    /\ UNCHANGED <<pc, camera, player, bullets, key_lst, mouse_pos, changes, frame, hits, since_hit, taken, first_hit>>

SpecChase == ChaseInit /\ [][ChaseUpdate]_vars

\* =============================================== Group_support_camera.draw
\* The three groups hold one sprite each; the sprites are updated, the camera
\* is put on any of a few foci, and the groups are drawn, in any order.
Foci == {<<0, 0>>, <<0 - 150, 75>>, <<333, 0 - 1>>, <<801, 451>>}
CameraKeys == {{}, {"a"}, {"d", "s"}, {"w"}}
CameraAims == {<<1, 0>>, <<0 - 3, 4>>, <<5, 0 - 12>>}
MaxCameraUpdates == 2

CameraInit ==
    /\ tmr = 0
    /\ pc = "camera"
    /\ camera \in Foci
    /\ player = Player(0, 0)
    /\ \E a \in ChaseAngles :
          enemies = <<Enemy(EnemyHp, SpawnPoint(camera, a)[1], SpawnPoint(camera, a)[2])>>
    /\ \E v \in CameraAims : bullets = <<Bullet(0, 0, v)>>
    /\ key_lst = {}
    /\ mouse_pos = <<1600, 450>>
    /\ changes = 0
    /\ frame = [image |-> "unset", rect |-> MkRect(0, 0, PlayerW, PlayerH)]
    /\ hits = 0
    /\ since_hit = 0
    /\ taken = 0
    /\ first_hit = 0 - 1

\* lines 387, 404, 406: the sprites are updated
CameraUpdate ==
    /\ pc = "camera"
    /\ tmr < MaxCameraUpdates
    /\ \E k \in CameraKeys : player' = PlayerUpdate(player, k)
    /\ bullets' = BulletsUpdate(bullets, 1)
    /\ enemies' = [i \in 1..Len(enemies) |-> EnemyUpdate(enemies[i], player')]
    /\ tmr' = tmr + 1
    /\ UNCHANGED <<pc, camera, key_lst, mouse_pos, changes, frame, hits, since_hit, taken, first_hit>>

\* camera.center_pos is written
CameraFollow ==
    /\ pc = "camera"
    /\ camera' \in Foci
    /\ UNCHANGED <<tmr, pc, player, enemies, bullets, key_lst, mouse_pos, changes, frame, hits, since_hit, taken, first_hit>>

\* lines 409-411, once the Player has an image
CameraDraw ==
    /\ pc = "camera"
    /\ player.image # "unset"
    /\ frame' = Blit(player, camera)
    /\ player' = [player EXCEPT !.rect = AfterDraw(@, camera)]
    /\ bullets' = [i \in 1..Len(bullets) |-> [bullets[i] EXCEPT !.rect = AfterDraw(@, camera)]]
    /\ enemies' = [i \in 1..Len(enemies) |-> [enemies[i] EXCEPT !.rect = AfterDraw(@, camera)]]
    /\ UNCHANGED <<tmr, pc, camera, key_lst, mouse_pos, changes, hits, since_hit, taken, first_hit>>

CameraNext ==
    \/ CameraUpdate
    \/ CameraFollow
    \/ CameraDraw

SpecCamera == CameraInit /\ [][CameraNext]_vars

\* ---------------------------------------------------------------- harness
\* Player.update alone, under every combination of the four movement keys, on
\* a fresh Player and on one that has just been hit
MaxKeyUpdates == 2

KeysInit ==
    /\ tmr = 0
    /\ pc = "keys"
    /\ camera = <<0, 0>>
    /\ player \in {Player(0, 0), GiveDamage(Player(0, 0), ContactDamage)}
    /\ enemies = << >>
    /\ bullets = << >>
    /\ key_lst = {}
    /\ mouse_pos = <<1600, 450>>
    /\ changes = 0
    /\ frame = [image |-> "unset", rect |-> MkRect(0, 0, PlayerW, PlayerH)]
    /\ hits = 0
    /\ since_hit = 0
    /\ taken = 0
    /\ first_hit = 0 - 1

\* lines 344 and 387: the keys are sampled and handed to player.update
KeysUpdate ==
    /\ pc = "keys"
    /\ tmr < MaxKeyUpdates
    /\ key_lst' \in SUBSET Keys
    /\ player' = PlayerUpdate(player, key_lst')
    /\ tmr' = tmr + 1
    /\ UNCHANGED <<pc, camera, enemies, bullets, mouse_pos, changes, frame, hits, since_hit, taken, first_hit>>

SpecKeys == KeysInit /\ [][KeysUpdate]_vars

\* ================================================================== claims
PlayerStep == pc = "game_over_check"
TimerAfterUpdate(t) == IF t - 1 >= 0 - 1 THEN t - 1 ELSE 0 - 1

\* C1: give_damage leaves the Player's hp alone while invincible_tmr > 0, one
\* collision pass lowers hp at most once however many enemies overlap the
\* Player, and after a call that lowered hp no call lowers it again before
\* 50 calls of Player.update
C1_OneHitPerWindow ==
    [][/\ pc # "pass_b" => player'.hp = player.hp
       /\ pc = "pass_b" =>
             /\ player.invincible_tmr > 0 => player'.hp = player.hp
             /\ player'.hp \in {player.hp, player.hp - ContactDamage}
             /\ (player'.hp < player.hp /\ hits > 0) => since_hit >= PlayerInvincibleTick]_vars

\* two enemies overlap the Player in a pass that lowers hp for the second time
C1_Witness ==
    /\ pc = "game_over_check"
    /\ hits >= 2
    /\ since_hit = 0
    /\ Cardinality(Touching(player, enemies)) >= 2

\* C2: invincible_tmr of the Player and of every Enemy is never below -1, an
\* update lowers it by 1 or leaves it at -1, and it goes up only in a
\* collision pass
C2_TimerFloor ==
    /\ [](/\ player.invincible_tmr >= 0 - 1
          /\ \A i \in 1..Len(enemies) : enemies[i].invincible_tmr >= 0 - 1)
    /\ [][/\ PlayerStep => player'.invincible_tmr = TimerAfterUpdate(player.invincible_tmr)
          /\ pc = "enemies_update" =>
                \A i \in 1..Len(enemies) :
                    enemies'[i].invincible_tmr = TimerAfterUpdate(enemies[i].invincible_tmr)
          /\ pc # "pass_b" => player'.invincible_tmr <= player.invincible_tmr
          /\ pc # "pass_a" =>
                \A i \in 1..Len(enemies) :
                    enemies'[i].invincible_tmr <= enemies[i].invincible_tmr]_vars

\* the Player's window has run out and the timer rests at -1; an enemy that
\* was hit is back at -1 as well
C2_Witness ==
    /\ hits >= 1
    /\ since_hit > PlayerInvincibleTick + 1
    /\ player.invincible_tmr = 0 - 1
    /\ \E i \in 1..Len(enemies) : enemies[i].hp < EnemyHp /\ enemies[i].invincible_tmr = 0 - 1

\* C5 as stated: once the Player's hp is <= 0 nothing is spawned, no collision
\* pass runs and nothing moves, the Player included
C5_Original ==
    [][player.hp <= 0 =>
          /\ enemies' = enemies
          /\ bullets' = bullets
          /\ player'.hp = player.hp
          /\ player'.rect = player.rect]_vars

\* C5 amended: once the Player's hp is <= 0 the only step left is the defeat
\* branch of the same tick; it spawns nothing, runs no collision pass and
\* moves no enemy and no bullet, but it updates the Player once more, which
\* moves it by speed times the sum of the pressed keys' deltas
C5_DefeatBranch ==
    [][player.hp <= 0 =>
          /\ pc = "game_over_check" /\ pc' = "game_over"
          /\ tmr' = tmr
          /\ enemies' = enemies
          /\ bullets' = bullets
          /\ player'.hp = player.hp
          /\ player'.rect.x = player.rect.x
                + PlayerSpeed * ((IF "d" \in key_lst THEN 1 ELSE 0) - (IF "a" \in key_lst THEN 1 ELSE 0))
          /\ player'.rect.y = player.rect.y
                + PlayerSpeed * ((IF "s" \in key_lst THEN 1 ELSE 0) - (IF "w" \in key_lst THEN 1 ELSE 0))
          /\ frame'.image = "fig8"]_vars

\* the defeat branch has run with a movement key down
C5_Witness ==
    /\ pc = "game_over"
    /\ key_lst = {"a"}
    /\ player.hp <= 0
    /\ CenterX(player.rect) # camera[1]

Overlap(i, j) == CollideRect(enemies[i].rect, bullets[j].rect)
HpOf(es) == [i \in 1..Len(es) |-> es[i].hp]
Positive(h) == h > 0

\* C3 as stated: in collision pass A every enemy that overlaps a bullet loses
\* 10 hp (and leaves enemies at hp <= 0), and every such bullet is removed
C3_Original ==
    [][pc = "pass_a" =>
          LET touched == {i \in 1..Len(enemies) : \E j \in 1..Len(bullets) : Overlap(i, j)}
              gone == {j \in 1..Len(bullets) : \E i \in 1..Len(enemies) : Overlap(i, j)}
              after == [i \in 1..Len(enemies) |->
                          IF i \in touched THEN enemies[i].hp - BulletDamage ELSE enemies[i].hp]
          IN  /\ bullets' = Without(bullets, gone, 1)
              /\ HpOf(enemies') = SelectSeq(after, Positive)]_vars

\* C3 amended: every bullet that overlaps an enemy is removed in the pass, and
\* an enemy loses 10 hp, whatever its timer, when it is the first enemy in
\* group order to overlap one of the bullets; an enemy that overlaps only
\* bullets which an earlier enemy overlaps as well keeps its hp
C3_FirstEnemyTakesBullet ==
    [][pc = "pass_a" =>
          LET first == {i \in 1..Len(enemies) :
                           \E j \in 1..Len(bullets) :
                               Overlap(i, j) /\ \A k \in 1..(i - 1) : ~Overlap(k, j)}
              gone == {j \in 1..Len(bullets) : \E i \in 1..Len(enemies) : Overlap(i, j)}
              after == [i \in 1..Len(enemies) |->
                          IF i \in first THEN enemies[i].hp - BulletDamage ELSE enemies[i].hp]
          IN  /\ bullets' = Without(bullets, gone, 1)
              /\ HpOf(enemies') = SelectSeq(after, Positive)]_vars

\* pass A has just damaged an enemy (its timer is 0 only then) while a second
\* enemy on the same spot, which the same bullet overlapped, was left alone
C3_Witness ==
    /\ pc = "pass_b"
    /\ \E i, k \in 1..Len(enemies) :
          /\ i < k
          /\ enemies[i].rect = enemies[k].rect
          /\ enemies[i].invincible_tmr = 0 /\ enemies[i].hp = EnemyHp - BulletDamage
          /\ enemies[k].invincible_tmr = 0 - 1 /\ enemies[k].hp = EnemyHp

\* C4 as stated: no bullet of the collection has lived more than 250 updates
C4_Original == \A i \in 1..Len(bullets) : bullets[i].life_tmr <= MAX_LIFE_TICK

TopImage(c) == c.imgs[SetMax(DOMAIN c.imgs)].image

\* C6 as stated: what is rendered for the Player is the image at the highest
\* priority present in its layered selection
C6_Original == pc \in {"tick", "game_over"} => frame.image = TopImage(player)

Timed(c, k) == k \in DOMAIN c.imgs /\ c.imgs[k].valid_time # None
Left(c, k) == c.imgs[k].valid_time[1]

AxisDistance(r) == Abs(CenterX(r)) + Abs(CenterY(r))

\* C9: the enemy stays on its axis; each update takes exactly 5 off its
\* distance, so that N updates take 5 * N off the 1000 it starts with, until
\* an update finds the distance below 50; from then on it does not move
C9_ChaseByFive ==
    /\ [](/\ CenterX(enemies[1].rect) = 0 \/ CenterY(enemies[1].rect) = 0
          /\ AxisDistance(enemies[1].rect) >= MinRange
                => AxisDistance(enemies[1].rect) = 1000 - EnemySpeed * tmr)
    /\ [][IF AxisDistance(enemies[1].rect) >= MinRange
          THEN AxisDistance(enemies'[1].rect) = AxisDistance(enemies[1].rect) - EnemySpeed
          ELSE enemies'[1].rect = enemies[1].rect]_vars

\* the guard has engaged and further updates have left the enemy where it was
C9_Witness ==
    /\ pc = "chase"
    /\ AxisDistance(enemies[1].rect) < MinRange
    /\ tmr > (1000 - MinRange) \div EnemySpeed + 2

Rects == <<player.rect>> \o [i \in 1..Len(enemies) |-> enemies[i].rect]
              \o [i \in 1..Len(bullets) |-> bullets[i].rect]

\* C8: a step that is not an update of the sprites, a draw of the groups in
\* particular, leaves the rect of every member as it was
C8_DrawRestoresRects == [][tmr' = tmr => Rects' = Rects]_vars

\* the groups have been drawn with the camera away from the origin and from
\* the Player
C8_Witness ==
    /\ pc = "camera"
    /\ camera = <<333, 0 - 1>>
    /\ frame.image # "unset"
    /\ frame.rect = ToScreen(player.rect, camera)
    /\ frame.rect # player.rect

\* C10: the centre of every member, taken to the screen as draw does and back
\* as the pointer is taken to the world, is the centre it started from
C10_RoundTrip ==
    \A i \in 1..Len(Rects) :
        PointerWorld(<<CenterX(ToScreen(Rects[i], camera)), CenterY(ToScreen(Rects[i], camera))>>,
                     camera)
            = <<CenterX(Rects[i]), CenterY(Rects[i])>>

\* a focus with two odd coordinates, away from the members
C10_Witness ==
    /\ pc = "camera"
    /\ camera = <<801, 451>>
    /\ tmr = MaxCameraUpdates
    /\ CenterX(player.rect) # 0
    /\ CenterX(ToScreen(player.rect, camera)) # CenterX(player.rect)

\* C11 as stated: collision pass A takes no enemy out of enemies, an enemy it
\* kills is still a member when pass B runs
C11_Original == [][pc = "pass_a" => Len(enemies') = Len(enemies)]_vars

\* the enemies that pass A hands to give_damage with no more than 10 hp left
LastHit ==
    {i \in 1..Len(enemies) :
        /\ enemies[i].hp <= BulletDamage
        /\ \E j \in 1..Len(bullets) : Overlap(i, j) /\ \A k \in 1..(i - 1) : ~Overlap(k, j)}

\* C11 amended: an enemy whose hp becomes <= 0 in collision pass A leaves
\* enemies within that pass, so that pass B and every later step of the tick
\* run without it; no other step takes an enemy out of enemies
C11_KilledInPassA ==
    [][/\ pc = "pass_a" => Len(enemies') = Len(enemies) - Cardinality(LastHit)
       /\ pc # "pass_a" => Len(enemies') >= Len(enemies)]_vars

\* pass B is about to run in a tick whose pass A has killed the second enemy
\* it hit (the timer of the surviving enemy is 0 in that tick only)
C11_Witness ==
    /\ pc = "pass_b"
    /\ Len(enemies) < (tmr \div EnemyPeriod) + 1
    /\ \E i \in 1..Len(enemies) : enemies[i].invincible_tmr = 0

\* the bullets that overlap enemy i
BulletsOn(i) == {j \in 1..Len(bullets) : Overlap(i, j)}

\* the bullets that groupcollide puts in the dict entry of enemy i: those it
\* overlaps and no earlier enemy of the group has taken
TakenBy(i) == {j \in BulletsOn(i) : \A k \in 1..(i - 1) : ~Overlap(k, j)}

\* hp of the i-th enemy of the group after pass A, 0 when pass A has killed it
HpAfterPassA(i) ==
    LET dead == {k \in 1..(i - 1) : k \in LastHit}
    IN  IF i \in LastHit THEN 0 ELSE enemies'[i - Cardinality(dead)].hp

\* C12 as stated: an enemy that overlaps k bullets at collision pass A takes
\* the projectile damage k times
C12_Original ==
    [][pc = "pass_a" =>
         \A i \in 1..Len(enemies) :
            TakenBy(i) = BulletsOn(i) =>
               HpAfterPassA(i) = Max2(enemies[i].hp - BulletDamage * Cardinality(BulletsOn(i)), 0)]_vars

\* C12 amended: in collision pass A the projectile damage is applied once per
\* enemy that groupcollide returns, however many bullets it overlaps (an enemy
\* with 20 hp that overlaps two bullets is left with 10), and every bullet
\* that overlaps an enemy is removed
C12_OncePerEnemy ==
    [][pc = "pass_a" =>
         /\ Len(enemies') = Len(enemies) - Cardinality(LastHit)
         /\ \A i \in 1..Len(enemies) :
               HpAfterPassA(i) = IF TakenBy(i) = {} THEN enemies[i].hp
                                 ELSE Max2(enemies[i].hp - BulletDamage, 0)
         /\ bullets' = Without(bullets, UNION {BulletsOn(i) : i \in 1..Len(enemies)}, 1)
         /\ taken' = SetMax({0} \cup {Cardinality(TakenBy(i)) : i \in 1..Len(enemies)})]_vars

\* pass A has just run on an enemy that overlapped two bullets and had its
\* full hp: the enemy is still there with 10 hp
C12_Witness ==
    /\ pc = "pass_b"
    /\ taken >= 2
    /\ \E i \in 1..Len(enemies) :
          enemies[i].invincible_tmr = 0 /\ enemies[i].hp = EnemyHp - BulletDamage

\* C13 as stated: no calc_orientation call gets two boxes with the same centre,
\* neither the one that aims a new bullet nor the one in Enemy.update, and
\* main never ends in a division by zero
C13_Original ==
    /\ pc # "crashed"
    /\ (pc = "spawn_bullet" /\ tmr % BulletPeriod = 0)
          => Norm2(player.rect, PointerRect(mouse_pos, camera)) # 0
    /\ pc = "enemies_update"
          => \A i \in 1..Len(enemies) :
                ~CalcNormBelow(enemies[i].rect, player.rect, MinRange)
                   => Norm2(enemies[i].rect, player.rect) # 0

\* the vector sum of the deltas of the keys in ks, one key after the other
RECURSIVE DeltaSum(_)
DeltaSum(ks) ==
    IF ks = {} THEN <<0, 0>>
    ELSE LET k == CHOOSE x \in ks : TRUE
             rest == DeltaSum(ks \ {k})
         IN  <<delta[k][1] + rest[1], delta[k][2] + rest[2]>>

\* C14: Player.update moves the Player by speed times the vector sum of the
\* pressed keys' deltas, opposite keys cancelling; a non-zero sum becomes the
\* facing and selects the base sprite, a zero sum keeps both; the facing is
\* always one of the 8 keys of move_imgs
C14_KeySum ==
    /\ [](player.dire \in DOMAIN move_imgs)
    /\ [][pc = "keys" =>
            LET s == DeltaSum(key_lst')
            IN  /\ player'.rect = MoveIp(player.rect, PlayerSpeed * s[1], PlayerSpeed * s[2])
                /\ ("a" \in key_lst' /\ "d" \in key_lst') => player'.rect.x = player.rect.x
                /\ ("w" \in key_lst' /\ "s" \in key_lst') => player'.rect.y = player.rect.y
                /\ s # <<0, 0>> => /\ player'.dire = s
                                   /\ player'.imgs[0].image = move_imgs[s]
                /\ s = <<0, 0>> => /\ player'.dire = player.dire
                                   /\ player'.imgs[0] = player.imgs[0]]_vars

\* a and d were pressed together with w: the Player has gone straight up and
\* faces up; before that it went down and left
C14_Witness ==
    /\ pc = "keys"
    /\ tmr = MaxKeyUpdates
    /\ key_lst = {"a", "d", "w"}
    /\ player.dire = <<0, 0 - 1>>
    /\ CenterX(player.rect) = 0 - PlayerSpeed
    /\ CenterY(player.rect) = 0

\* the centre of the Player's rect
PlayerCentre == <<CenterX(player.rect), CenterY(player.rect)>>

\* C15: the camera focus is written in one step of a tick only, the one that
\* moves the Player, and gets the centre the Player has after the move; at
\* the render pass of a tick that goes on the focus is the Player's centre,
\* and at the render pass of the defeat branch it is at most one Player step
\* (speed 10 on each axis) away from it
C15_FocusFollows ==
    /\ [][camera' # camera =>
             /\ pc = "game_over_check" /\ pc' = "spawn_bullet" /\ tmr' = tmr
             /\ camera' = <<CenterX(player'.rect), CenterY(player'.rect)>>]_vars
    /\ [](pc = "draw" => camera = PlayerCentre)
    /\ [](pc = "game_over" =>
             /\ Abs(camera[1] - PlayerCentre[1]) <= PlayerSpeed
             /\ Abs(camera[2] - PlayerCentre[2]) <= PlayerSpeed)

\* the render pass of a tick in which the Player has walked left: the focus
\* has left the origin with the Player
C15_Witness ==
    /\ pc = "draw"
    /\ key_lst = {"a"}
    /\ camera = PlayerCentre
    /\ camera[1] = 0 - (PlayerSpeed * (tmr + 1))

\* the defeat branch has rendered a Player that is one step ahead of the focus
C15_Behind ==
    /\ pc = "game_over"
    /\ camera[1] - PlayerCentre[1] = PlayerSpeed

\* C16: collision pass B lowers the Player's hp by the contact damage 10 when
\* an enemy overlaps the Player outside the invincibility window, and leaves
\* enemies as it is: the same enemies in the same order with the same hp,
\* timer, images and rect
C16_PassBKeepsEnemies ==
    [][pc = "pass_b" =>
         /\ enemies' = enemies
         /\ player'.hp = IF Touching(player, enemies) # {} /\ player.invincible_tmr <= 0
                         THEN player.hp - ContactDamage ELSE player.hp
         /\ player'.rect = player.rect]_vars

\* pass B has just lowered the Player's hp, and the enemy that did it is
\* still on the Player
C16_Witness ==
    /\ pc = "game_over_check"
    /\ since_hit = 0
    /\ hits >= 1
    /\ first_hit = tmr
    /\ Touching(player, enemies) # {}

\* C17: between any two steps every member of enemies has hp > 0, while the
\* Player is kept: when its hp is <= 0 the defeat branch still finds it in
\* player_group and draws it where it stands
C17_NoDeadEnemy ==
    /\ \A i \in 1..Len(enemies) : enemies[i].hp > 0
    /\ pc = "game_over" => /\ player.hp <= 0
                           /\ frame.rect = ToScreen(player.rect, camera)

\* main has ended with the Player at hp <= 0 on the screen, after pass A has
\* taken at least one of the spawned enemies out of enemies
C17_Witness ==
    /\ pc = "game_over"
    /\ player.hp <= 0
    /\ frame.image = "fig8"
    /\ Len(enemies) < (tmr \div EnemyPeriod) + 1

\* the hits that take the Player from its first hp to 0
HitsToDefeat == PlayerHp \div ContactDamage

\* C18: the Player's hp is always one of 50, 40, 30, 20, 10, 0 and never
\* goes up; it reaches 0 in collision pass B only, the defeat branch runs in
\* that same tick, and that tick is at least 200 ticks (four invincibility
\* windows) after the tick of the first hit
C18_HpLadder ==
    /\ [](player.hp \in {PlayerHp - (k * ContactDamage) : k \in 0..HitsToDefeat})
    /\ [][player'.hp <= player.hp]_vars
    /\ [][player'.hp = 0 /\ player.hp # 0 => pc = "pass_b"]_vars
    /\ [][player.hp = 0 => pc = "game_over_check" /\ pc' = "game_over" /\ tmr' = tmr]_vars
    /\ [](pc = "game_over" =>
             /\ player.hp = 0
             /\ hits = HitsToDefeat
             /\ first_hit >= 0
             /\ tmr >= first_hit + ((HitsToDefeat - 1) * PlayerInvincibleTick))

\* main has ended after five hits, the last one 200 ticks or more after the
\* first
C18_Witness ==
    /\ pc = "game_over"
    /\ player.hp = 0
    /\ hits = 5
    /\ first_hit > 0
    /\ tmr - first_hit >= 200

\* the most bullets that can be alive: one per 5 ticks over the 252 updates
\* that a bullet gets
MostBullets == ((MAX_LIFE_TICK + 1) \div BulletPeriod) + 1

\* C19: bullets never holds more than 51 bullets, at the end of a tick or at
\* any other point; it grows by one bullet in the spawn step of every 5th
\* tick only, and no bullet in it has had more than 251 updates
C19_AtMost51 ==
    /\ [](Len(bullets) <= 51 /\ MostBullets = 51)
    /\ [](\A j \in 1..Len(bullets) : bullets[j].life_tmr <= MAX_LIFE_TICK + 1)
    /\ [][Len(bullets') > Len(bullets) =>
             /\ pc = "spawn_bullet" /\ tmr % BulletPeriod = 0
             /\ Len(bullets') = Len(bullets) + 1]_vars

\* the end of tick 250, with no bullet lost to an enemy: the bullets of ticks
\* 0, 5, ..., 250 are all there
C19_Witness ==
    /\ pc = "tick"
    /\ tmr = MAX_LIFE_TICK
    /\ Len(bullets) = 51

\* the priority that the Character.update of a Player step works on: the
\* defeat branch has set_image at priority 10 before it calls update
TopPriority == IF player.hp <= 0 THEN DefeatPriority ELSE SetMax(DOMAIN player.imgs)

\* C20: a Player update lowers the counter of the entry at the highest
\* priority only, or evicts that entry; a timed entry below it stays in
\* _imgs with the counter it had (the hurt entry under the defeat entry)
C20_OnlyTopCounts ==
    [][PlayerStep =>
         /\ \A k \in DOMAIN player.imgs :
               (k < TopPriority /\ Timed(player, k)) =>
                  Timed(player', k) /\ Left(player', k) = Left(player, k)
         /\ (player.hp <= 0) =>
               /\ Timed(player', DefeatPriority)
               /\ Left(player', DefeatPriority) = DefeatTicks - 1
         /\ (player.hp > 0 /\ Timed(player, TopPriority)) =>
               \/ TopPriority \notin DOMAIN player'.imgs
               \/ Left(player', TopPriority) = Left(player, TopPriority) - 1]_vars

\* the defeat branch has updated the Player in the tick of the last hit: the
\* defeat entry has counted one update, the hurt entry below it none
C20_Witness ==
    /\ pc = "game_over"
    /\ Timed(player, DefeatPriority) /\ Left(player, DefeatPriority) = DefeatTicks - 1
    /\ Timed(player, HurtPriority) /\ Left(player, HurtPriority) = HurtTicks
====
